---- MODULE Spec2Model ----
(***************************************************************************)
(* Model of mujinvisioncontrollerclient.VisionControllerClient: command    *)
(* dispatch (_ExecuteCommand, _SendConfiguration), deferred collection     *)
(* (_WaitForResponse), response validation (_ProcessResponse), the state   *)
(* subscriber (GetPublishedState) and teardown (Destroy / SetDestroy).     *)
(*                                                                         *)
(* The two request channels (zmqclient.ZmqClient), the subscriber          *)
(* (zmqsubscriber.ZmqSubscriber) and the zmq context are collaborators the *)
(* client only calls into.  What they return or raise is an input of the   *)
(* action that calls them, drawn with \E.                                  *)
(***************************************************************************)
EXTENDS Integers, Sequences, FiniteSets, TLC

(***************************************************************************)
(* Bounds of the model.                                                    *)
(***************************************************************************)
\* longest raw payload that is not the serialisation of a mapping
MaxBlobLen == 3
\* cap on the number of deferred commands dispatched and not yet collected
MaxOutstanding == 2
(***************************************************************************)
(* Program constants.                                                      *)
(***************************************************************************)
DefaultCommandPort == 7004
ConfigurationPortOffset == 2
StatusPortOffset == 3
\* timeout=2.0, in milliseconds
DefaultTimeoutMs == 2000

(***************************************************************************)
(* Python / JSON values, tagged so that values of different types can be   *)
(* compared.  A raw (undecoded) payload is a sequence of lexemes: the      *)
(* punctuation characters, scalar literals, whitespace and opaque bytes.   *)
(***************************************************************************)
None == [t |-> "null"]
Str(s) == [t |-> "str", s |-> s]
Num(n) == [t |-> "num", n |-> n]
List(l) == [t |-> "list", l |-> l]
Dict(d) == [t |-> "dict", d |-> d]
Raw(r) == [t |-> "raw", r |-> r]
Bool(b) == [t |-> "bool", b |-> b]
\* a float number of seconds, kept in milliseconds
Float(ms) == [t |-> "float", ms |-> ms]

EmptyMap == [k \in {} |-> None]

Punct(c) == [t |-> "punct", c |-> c]
LBrace == Punct("{")
RBrace == Punct("}")
LBracket == Punct("[")
RBracket == Punct("]")
Colon == Punct(":")
Comma == Punct(",")
Ws == [t |-> "ws"]
Byte == [t |-> "byte"]

IsDict(v) == v.t = "dict"
HasKey(v, k) == IsDict(v) /\ k \in DOMAIN v.d

\* dict.get(key, default)
Get(v, k, default) == IF k \in DOMAIN v.d THEN v.d[k] ELSE default

\* d[key] = value
SetItem(d, k, v) == [x \in DOMAIN d \cup {k} |-> IF x = k THEN v ELSE d[x]]

\* Python truthiness: None, '', 0, False, [], {} are false
Truthy(v) ==
    CASE v.t = "null" -> FALSE
      [] v.t = "str"  -> v.s # ""
      [] v.t = "num"  -> v.n # 0
      [] v.t = "bool" -> v.b
      [] v.t = "list" -> Len(v.l) > 0
      [] v.t = "dict" -> DOMAIN v.d # {}
      [] v.t = "raw"  -> Len(v.r) > 0
      [] OTHER -> TRUE

\* len(response): number of keys of a mapping, number of characters of a payload
PyLen(v) ==
    CASE v.t = "dict" -> Cardinality(DOMAIN v.d)
      [] v.t = "raw"  -> Len(v.r)
      [] v.t = "list" -> Len(v.l)
      [] OTHER -> 0

(***************************************************************************)
(* json.loads: a recursive-descent decoder over the lexemes of a payload.  *)
(* Whitespace between lexemes is insignificant; anything that is not one   *)
(* JSON value followed by the end of the payload is a ValueError.          *)
(***************************************************************************)
ParseFail == [ok |-> FALSE, val |-> None, next |-> 0]
ParseOk(v, n) == [ok |-> TRUE, val |-> v, next |-> n]

RECURSIVE ParseValue(_, _), ParseMembers(_, _, _), ParseElements(_, _, _)
ParseValue(s, i) ==
    IF i > Len(s) THEN ParseFail
    ELSE IF s[i].t \in {"str", "num", "null", "bool"} THEN ParseOk(s[i], i + 1)
    ELSE IF s[i] = LBrace THEN
        IF i + 1 <= Len(s) /\ s[i + 1] = RBrace
        THEN ParseOk(Dict(EmptyMap), i + 2)
        ELSE ParseMembers(s, i + 1, EmptyMap)
    ELSE IF s[i] = LBracket THEN
        IF i + 1 <= Len(s) /\ s[i + 1] = RBracket
        THEN ParseOk(List(<<>>), i + 2)
        ELSE ParseElements(s, i + 1, <<>>)
    ELSE ParseFail

ParseMembers(s, i, acc) ==
    IF i + 2 > Len(s) \/ s[i].t # "str" \/ s[i + 1] # Colon THEN ParseFail
    ELSE LET v == ParseValue(s, i + 2) IN
         IF ~v.ok \/ v.next > Len(s) THEN ParseFail
         ELSE IF s[v.next] = RBrace
              THEN ParseOk(Dict(SetItem(acc, s[i].s, v.val)), v.next + 1)
         ELSE IF s[v.next] = Comma
              THEN ParseMembers(s, v.next + 1, SetItem(acc, s[i].s, v.val))
         ELSE ParseFail

ParseElements(s, i, acc) ==
    LET v == ParseValue(s, i) IN
    IF ~v.ok \/ v.next > Len(s) THEN ParseFail
    ELSE IF s[v.next] = RBracket THEN ParseOk(List(Append(acc, v.val)), v.next + 1)
    ELSE IF s[v.next] = Comma THEN ParseElements(s, v.next + 1, Append(acc, v.val))
    ELSE ParseFail

IsWs(x) == x = Ws

\* [ok |-> FALSE] stands for ValueError
JsonLoads(r) ==
    LET s == SelectSeq(r, LAMBDA x : ~IsWs(x))
        p == ParseValue(s, 1)
    IN IF p.ok /\ p.next = Len(s) + 1 THEN p ELSE ParseFail

(***************************************************************************)
(* The serialisation the vision manager applies to a reply (json.dumps),   *)
(* used to produce the raw payloads the channel delivers in non-JSON mode. *)
(***************************************************************************)
KeyOrder == <<"error", "desc", "type", "result">>

RECURSIVE JsonDumps(_), DumpMembers(_, _), DumpElements(_)
JsonDumps(v) ==
    CASE v.t = "dict" ->
            <<LBrace>> \o DumpMembers(v.d, SelectSeq(KeyOrder, LAMBDA k : k \in DOMAIN v.d))
                       \o <<RBrace>>
      [] v.t = "list" -> <<LBracket>> \o DumpElements(v.l) \o <<RBracket>>
      [] OTHER -> <<v>>

DumpMembers(d, keys) ==
    IF keys = <<>> THEN <<>>
    ELSE <<Str(Head(keys)), Colon>> \o JsonDumps(d[Head(keys)])
         \o (IF Tail(keys) = <<>> THEN <<>> ELSE <<Comma>> \o DumpMembers(d, Tail(keys)))

DumpElements(l) ==
    IF l = <<>> THEN <<>>
    ELSE JsonDumps(Head(l))
         \o (IF Tail(l) = <<>> THEN <<>> ELSE <<Comma>> \o DumpElements(Tail(l)))

(***************************************************************************)
(* What a call gives back: a returned value or a raised exception with its *)
(* class, errortype and description.                                       *)
(***************************************************************************)
Return(v) == [kind |-> "return", exc |-> "", errortype |-> None, desc |-> None, value |-> v]
Raise(exc, errortype, desc) ==
    [kind |-> "raise", exc |-> exc, errortype |-> errortype, desc |-> desc, value |-> None]

\* a message built from a format string and the values it embeds
Msg(template, args) == [t |-> "msg", template |-> template, args |-> args]

\* '%.03f' % timeout: the seconds and the three decimals; a TypeError for None
FormatSeconds(timeout) ==
    IF timeout.t = "float"
    THEN [ok |-> TRUE,
          text |-> [t |-> "seconds", whole |-> timeout.ms \div 1000,
                    thousandths |-> timeout.ms % 1000]]
    ELSE [ok |-> FALSE, text |-> None]

(***************************************************************************)
(* _ProcessResponse                                                        *)
(***************************************************************************)
\* _HandleError
HandleError(response) ==
    LET error == response.d["error"] IN
    IF IsDict(error)
    THEN Raise("VisionControllerClientError", Get(error, "type", Str("")),
               Get(error, "desc", Str("")))
    ELSE Raise("VisionControllerClientError", Str("unknownerror"),
               Msg("Got unknown error from vision manager: %r", <<error>>))

\* the membership test written as a truth test: if response.get('error')
HasErrorFalsySkipped(response) == HasKey(response, "error") /\ Truthy(response.d["error"])

\* 'error' in response
HasError(response) == HasKey(response, "error")

\* the sniffing replaced by a parse attempt: decode whatever json.loads accepts
LooksLikeJsonByParsing(response) == PyLen(response) > 0 /\ JsonLoads(response.r).ok

\* len(response) > 0 and response[0] == '{' and response[-1] == '}'
LooksLikeJson(response) ==
    /\ PyLen(response) > 0
    /\ response.r[1] = LBrace
    /\ response.r[Len(response.r)] = RBrace

\* if len(response) == 0: raise ... errortype='emptyresponseerror'
EmptyCheck(response, command) ==
    IF PyLen(response) = 0
    THEN Raise("VisionControllerClientError", Str("emptyresponseerror"),
               Msg("Vision command %(command)s failed with empty response %(response)r",
                   <<command, response>>))
    ELSE Return(response)

ProcessResponse(response, command, recvjson) ==
    IF recvjson
    THEN IF HasError(response) THEN HandleError(response) ELSE Return(response)
    ELSE IF LooksLikeJson(response)
         THEN LET decoded == JsonLoads(response.r) IN
              IF ~decoded.ok THEN Raise("ValueError", None, None)
              ELSE IF HasError(decoded.val) THEN HandleError(decoded.val)
              ELSE EmptyCheck(decoded.val, command)
         ELSE EmptyCheck(response, command)

(***************************************************************************)
(* The client's state.                                                     *)
(***************************************************************************)
VARIABLES
    commandsocket,        \* _commandsocket: "ZmqClient" or "None"
    configurationsocket,  \* _configurationsocket: "ZmqClient" or "None"
    subscriber,           \* _subscriber: "ZmqSubscriber" or "None"
    ctxown,               \* _ctxown: "Context" or "None"
    ctx,                  \* _ctx: "Context" or "None"
    callerid,             \* _callerid: None or a string
    outstanding,          \* command channel: deferred commands sent, reply not yet received
    last,                 \* the call that has just ended and what came of it
    previous              \* the call before it: "Destroy", "DestroyRaised" or "other"

vars == <<commandsocket, configurationsocket, subscriber, ctxown, ctx, callerid,
          outstanding, last, previous>>

hostname == "127.0.0.1"
commandport == DefaultCommandPort
configurationport == commandport + ConfigurationPortOffset
statusport == commandport + StatusPortOffset

(***************************************************************************)
(* Inputs: the arguments callers pass and what the collaborators deliver.  *)
(***************************************************************************)
CallerIds == {None, Str(""), Str("caller1")}

Timeouts == {None, Float(0), Float(DefaultTimeoutMs)}

Commands ==
    { Dict([command |-> Str("GetLatestDetectionResultImages")]),
      Dict([command |-> Str("StopTask"), callerid |-> Str("other")]) }

Configurations ==
    { Dict([command |-> Str("Ping")]),
      Dict([command |-> Str("Cancel"), callerid |-> Str("other")]) }

\* the command argument of _WaitForResponse
WaitCommands ==
    { None, Dict([command |-> Str("GetLatestDetectionResultImages")]), Dict(EmptyMap) }

Scalars == {Str("oops"), Num(0), None}
ErrorFields == {Str("X"), Str("")}
ErrorDicts ==
    { Dict(f) : f \in UNION { [K -> ErrorFields] : K \in SUBSET {"desc", "type"} } }
ErrorValues == Scalars \cup {List(<<>>), List(<<Str("oops")>>)} \cup ErrorDicts

\* decoded replies: mappings with or without an 'error' entry
Mappings ==
    { Dict(f) : f \in UNION { [K -> {Num(1)}] : K \in SUBSET {"result"} } }
    \cup { Dict(SetItem(f, "error", e)) :
             f \in UNION { [K -> {Num(1)}] : K \in SUBSET {"result"} }, e \in ErrorValues }

RECURSIVE SeqsUpTo(_, _)
SeqsUpTo(S, n) ==
    IF n = 0 THEN {<<>>}
    ELSE LET shorter == SeqsUpTo(S, n - 1)
         IN shorter \cup { Append(q, x) : q \in shorter, x \in S }

\* payloads that are no serialisation: image bytes, stray braces, nothing at all
Blobs == SeqsUpTo({LBrace, RBrace, Byte, Ws}, MaxBlobLen)

\* raw replies: serialised mappings, one with whitespace before or after it, blobs
RawReplies ==
    { Raw(JsonDumps(m)) : m \in Mappings }
    \cup { Raw(<<Ws>> \o JsonDumps(m)) : m \in {Dict([result |-> Num(1)])} }
    \cup { Raw(JsonDumps(m) \o <<Ws>>) : m \in {Dict([result |-> Num(1)])} }
    \cup { Raw(b) : b \in Blobs }

Replies(recvjson) == IF recvjson THEN Mappings ELSE RawReplies

\* what SendCommand hands back when it does not wait for the reply
Acks(recvjson) ==
    IF recvjson THEN {None, Dict([error |-> Str("oops")])} ELSE {None, Raw(<<>>)}

\* one call into a channel: it returns a value or raises
ChannelReturns(v) == [kind |-> "return", value |-> v]
ChannelRaises(exc) == [kind |-> "raise", value |-> Str(exc)]
ChannelFailures == {ChannelRaises("TimeoutError"), ChannelRaises("Exception")}

SendOutcomes(fireandforget, blockwait, recvjson) ==
    ChannelFailures \cup
    { ChannelReturns(v) :
        v \in IF blockwait /\ ~fireandforget THEN Replies(recvjson) ELSE Acks(recvjson) }

ReceiveOutcomes(recvjson) ==
    ChannelFailures \cup { ChannelReturns(v) : v \in Replies(recvjson) }

\* ZmqClient.IsWaitingReply
IsWaitingReply(o) == o > 0

\* the query put to the configuration channel, which is never left waiting
IsWaitingResponseOfConfiguration(o) == IsWaitingReply(0)

\* IsWaitingResponse: return self._commandsocket.IsWaitingReply()
IsWaitingResponse(o) == IsWaitingReply(o)

\* the channel's pending replies after SendCommand
AfterSend(o, fireandforget, blockwait, chan) ==
    IF chan.kind = "return" /\ ~fireandforget /\ ~blockwait THEN o + 1 ELSE o

\* the channel's pending replies after ReceiveCommand
AfterReceive(o, chan) ==
    IF chan.kind = "return" /\ o > 0 THEN o - 1 ELSE o

(***************************************************************************)
(* The call record: the operation and its arguments, the pending-wait      *)
(* answer just before the call (for _ExecuteCommand what IsWaitingResponse *)
(* would have told the caller, for _WaitForResponse what IsWaitingReply    *)
(* told the client), the payload dispatched, what the collaborator asked   *)
(* for a value did, the collaborator calls made in order, the failures     *)
(* logged, and the result.                                                 *)
(***************************************************************************)
\* no collaborator was asked for a value
NoChannel == [kind |-> "none", value |-> None]

NoCall == [op |-> "init", args |-> <<>>, waiting |-> FALSE, sent |-> None,
           chan |-> NoChannel, calls |-> <<>>, logged |-> {}, out |-> Return(None)]

Call(op, args, waiting, sent, chan, calls, logged, out) ==
    [op |-> op, args |-> args, waiting |-> waiting, sent |-> sent, chan |-> chan,
     calls |-> calls, logged |-> logged, out |-> out]

\* what the channel did: "return", "TimeoutError", "Exception", or "none"
ChanTag(chan) == IF chan.kind = "raise" THEN chan.value.s ELSE chan.kind

\* an exception of a collaborator that the client does not catch
Propagate(chan) == Raise(chan.value.s, None, None)

AttributeError == Raise("AttributeError", None, None)

\* calls are made one at a time: the caller has taken the result of the last one
Idle == last.op = "init"

(***************************************************************************)
(* _ExecuteCommand, _SendConfiguration                                     *)
(***************************************************************************)
\* the identifier added only where the payload has none: command.setdefault('callerid', ...)
InjectCallerIdIfAbsent(command, id) ==
    IF Truthy(id) /\ ~HasKey(command, "callerid")
    THEN Dict(SetItem(command.d, "callerid", id))
    ELSE command

\* if self._callerid: command['callerid'] = self._callerid
InjectCallerId(command, id) ==
    IF Truthy(id) THEN Dict(SetItem(command.d, "callerid", id)) ELSE command

\* the test without its second half: if blockwait
ExecuteValidatesWhenBlocking(fireandforget, blockwait) == blockwait

\* if blockwait and not fireandforget
ExecuteValidates(fireandforget, blockwait) == blockwait /\ ~fireandforget

\* if not fireandforget
ConfigurationValidates(fireandforget) == ~fireandforget

\* the part of _ExecuteCommand after SendCommand was called
ExecuteResult(sent, fireandforget, recvjson, blockwait, chan) ==
    IF chan.kind = "raise" THEN Propagate(chan)
    ELSE IF ExecuteValidates(fireandforget, blockwait)
         THEN ProcessResponse(chan.value, sent, recvjson)
         ELSE Return(chan.value)

\* the part of _SendConfiguration after SendCommand was called
ConfigurationResult(sent, fireandforget, recvjson, chan) ==
    IF chan.kind = "raise" THEN Propagate(chan)
    ELSE IF ConfigurationValidates(fireandforget)
         THEN ProcessResponse(chan.value, sent, recvjson)
         ELSE Return(chan.value)

ExecuteCommand ==
    /\ Idle
    /\ \E command \in Commands, fireandforget \in BOOLEAN, recvjson \in BOOLEAN,
          blockwait \in BOOLEAN :
         LET timeout == Float(DefaultTimeoutMs)
             args == [command |-> command, fireandforget |-> fireandforget,
                      timeout |-> timeout, recvjson |-> recvjson, blockwait |-> blockwait]
             sent == InjectCallerId(command, callerid)
         IN IF commandsocket = "None"
            THEN /\ last' = Call("ExecuteCommand", args, FALSE, None, NoChannel, <<>>, {},
                                 AttributeError)
                 /\ UNCHANGED outstanding
            ELSE \E chan \in SendOutcomes(fireandforget, blockwait, recvjson) :
                   /\ AfterSend(outstanding, fireandforget, blockwait, chan) <= MaxOutstanding
                   /\ outstanding' = AfterSend(outstanding, fireandforget, blockwait, chan)
                   /\ last' = Call("ExecuteCommand", args, IsWaitingResponse(outstanding), sent,
                                   chan, <<"commandsocket.SendCommand">>, {},
                                   ExecuteResult(sent, fireandforget, recvjson, blockwait,
                                                 chan))
    /\ UNCHANGED <<commandsocket, configurationsocket, subscriber, ctxown, ctx, callerid,
                   previous>>

SendConfiguration ==
    /\ Idle
    /\ \E configuration \in Configurations, fireandforget \in BOOLEAN :
         LET timeout == Float(DefaultTimeoutMs)
             recvjson == TRUE
             args == [command |-> configuration, fireandforget |-> fireandforget,
                      timeout |-> timeout, recvjson |-> recvjson, blockwait |-> TRUE]
             sent == InjectCallerId(configuration, callerid)
         IN IF configurationsocket = "None"
            THEN last' = Call("SendConfiguration", args, FALSE, None, NoChannel, <<>>, {},
                              AttributeError)
            ELSE \E chan \in SendOutcomes(fireandforget, TRUE, recvjson) :
                   last' = Call("SendConfiguration", args, FALSE, sent, chan,
                                <<"configurationsocket.SendCommand">>, {},
                                ConfigurationResult(sent, fireandforget, recvjson, chan))
    /\ UNCHANGED <<commandsocket, configurationsocket, subscriber, ctxown, ctx, callerid,
                   outstanding, previous>>

(***************************************************************************)
(* _WaitForResponse, IsWaitingResponse                                     *)
(***************************************************************************)
\* commandName = command.get('command') or '' when command is a dict, else ''
CommandName(command) ==
    IF IsDict(command)
    THEN LET name == Get(command, "command", None)
         IN IF Truthy(name) THEN name ELSE Str("")
    ELSE Str("")

\* the guard with its negation lost
InvalidWaitInverted(o) == IsWaitingReply(o)

\* if not self._commandsocket.IsWaitingReply(): raise ... errortype='invalidwait'
InvalidWait(o) == ~IsWaitingReply(o)

InvalidWaitError(command) ==
    Raise("VisionControllerClientError", Str("invalidwait"),
          Msg("Waiting on command \"%(commandName)s\" when wait signal is not on",
              <<CommandName(command)>>))

\* except TimeoutError as e: raise VisionControllerTimeoutError(... % (timeout, ...))
TimeoutHandler(timeout, command, chan) ==
    LET seconds == FormatSeconds(timeout) IN
    IF ~seconds.ok THEN Raise("TypeError", None, None)
    ELSE Raise("VisionControllerTimeoutError", Str("timeout"),
               Msg("Timed out after %.03f seconds to get response message %s from %s:%d: %s",
                   <<seconds.text, CommandName(command), Str(hostname), Num(commandport),
                     chan.value>>))

\* except Exception as e: raise VisionControllerClientError(..., errortype='unknownerror')
ExceptionHandler(command, chan) ==
    Raise("VisionControllerClientError", Str("unknownerror"),
          Msg("Problem receiving response from the last vision manager async call %s: %s",
              <<CommandName(command), chan.value>>))

\* the part of _WaitForResponse after ReceiveCommand was called
WaitResult(recvjson, timeout, command, chan) ==
    IF chan.kind = "raise"
    THEN IF chan.value = Str("TimeoutError")
         THEN TimeoutHandler(timeout, command, chan)
         ELSE ExceptionHandler(command, chan)
    ELSE ProcessResponse(chan.value, command, recvjson)

WaitForResponse ==
    /\ Idle
    /\ \E recvjson \in BOOLEAN, timeout \in Timeouts, command \in WaitCommands :
         LET args == [command |-> command, fireandforget |-> FALSE, timeout |-> timeout,
                      recvjson |-> recvjson, blockwait |-> FALSE]
         IN IF commandsocket = "None"
            THEN /\ last' = Call("WaitForResponse", args, FALSE, None, NoChannel, <<>>, {},
                                 AttributeError)
                 /\ UNCHANGED outstanding
            ELSE IF InvalidWait(outstanding)
            THEN /\ last' = Call("WaitForResponse", args, IsWaitingReply(outstanding), None,
                                 NoChannel, <<"commandsocket.IsWaitingReply">>, {},
                                 InvalidWaitError(command))
                 /\ UNCHANGED outstanding
            ELSE \E chan \in ReceiveOutcomes(recvjson) :
                   /\ outstanding' = AfterReceive(outstanding, chan)
                   /\ last' = Call("WaitForResponse", args, IsWaitingReply(outstanding), None,
                                   chan,
                                   <<"commandsocket.IsWaitingReply",
                                     "commandsocket.ReceiveCommand">>, {},
                                   WaitResult(recvjson, timeout, command, chan))
    /\ UNCHANGED <<commandsocket, configurationsocket, subscriber, ctxown, ctx, callerid,
                   previous>>

IsWaitingResponseCall ==
    /\ Idle
    /\ last' = IF commandsocket = "None"
               THEN Call("IsWaitingResponse", <<>>, FALSE, None, NoChannel, <<>>, {},
                         AttributeError)
               ELSE Call("IsWaitingResponse", <<>>, IsWaitingReply(outstanding), None,
                         NoChannel,
                         <<"commandsocket.IsWaitingReply">>, {},
                         Return(Bool(IsWaitingResponse(outstanding))))
    /\ UNCHANGED <<commandsocket, configurationsocket, subscriber, ctxown, ctx, callerid,
                   outstanding, previous>>

(***************************************************************************)
(* GetPublishedState                                                       *)
(***************************************************************************)
\* what one SpinOnce of the subscriber delivers: nothing, or the newest raw message
PublishedStates == {None, Raw(JsonDumps(Dict([result |-> Num(1)]))), Raw(<<Byte>>)}

SpinOutcomes == {ChannelRaises("Exception")} \cup { ChannelReturns(v) : v \in PublishedStates }

\* if rawState is not None: return json.loads(rawState)
PublishedResult(chan) ==
    IF chan.kind = "raise" THEN Propagate(chan)
    ELSE IF chan.value = None THEN Return(None)
    ELSE LET decoded == JsonLoads(chan.value.r) IN
         IF decoded.ok THEN Return(decoded.val) ELSE Raise("ValueError", None, None)

\* the test for an existing handle lost: a subscriber is constructed on every call
GetPublishedStateAlwaysSubscribing ==
    /\ Idle
    /\ \E timeout \in Timeouts, chan \in SpinOutcomes :
         /\ subscriber' = "ZmqSubscriber"
         /\ last' = Call("GetPublishedState", [timeout |-> timeout], IsWaitingReply(outstanding),
                         Msg("tcp://%s:%d", <<Str(hostname), Num(statusport)>>), chan,
                         <<"zmqsubscriber.ZmqSubscriber", "subscriber.SpinOnce">>,
                         {}, PublishedResult(chan))
    /\ UNCHANGED <<commandsocket, configurationsocket, ctxown, ctx, callerid, outstanding,
                   previous>>

GetPublishedState ==
    /\ Idle
    /\ \E timeout \in Timeouts, chan \in SpinOutcomes :
         /\ subscriber' = "ZmqSubscriber"
         /\ last' = Call("GetPublishedState", [timeout |-> timeout], IsWaitingReply(outstanding),
                         Msg("tcp://%s:%d", <<Str(hostname), Num(statusport)>>), chan,
                         IF subscriber = "None"
                         THEN <<"zmqsubscriber.ZmqSubscriber", "subscriber.SpinOnce">>
                         ELSE <<"subscriber.SpinOnce">>,
                         {}, PublishedResult(chan))
    /\ UNCHANGED <<commandsocket, configurationsocket, ctxown, ctx, callerid, outstanding,
                   previous>>

(***************************************************************************)
(* Destroy, SetDestroy.  The teardown is run step by step over a record of *)
(* the references; `fails` is the set of collaborator calls that raise     *)
(* when they are made.                                                     *)
(***************************************************************************)
TeardownCalls ==
    { "commandsocket.SetDestroy", "configurationsocket.SetDestroy",
      "commandsocket.Destroy", "configurationsocket.Destroy",
      "subscriber.Destroy", "ctxown.destroy" }

References ==
    [cmd |-> commandsocket, cfg |-> configurationsocket, sub |-> subscriber,
     own |-> ctxown, ctx |-> ctx, calls |-> <<>>, logged |-> {}, raised |-> FALSE]

\* SetDestroy: both calls are made outside any try
SetDestroySteps(st, fails) ==
    LET a == IF st.raised \/ st.cmd = "None" THEN st
             ELSE [st EXCEPT !.calls = Append(@, "commandsocket.SetDestroy"),
                             !.raised = "commandsocket.SetDestroy" \in fails]
    IN IF a.raised \/ a.cfg = "None" THEN a
       ELSE [a EXCEPT !.calls = Append(@, "configurationsocket.SetDestroy"),
                      !.raised = "configurationsocket.SetDestroy" \in fails]

\* try: self._commandsocket.Destroy(); self._commandsocket = None / except: log
DestroyCommandSocket(st, fails) ==
    IF st.raised \/ st.cmd = "None" THEN st
    ELSE IF "commandsocket.Destroy" \in fails
         THEN [st EXCEPT !.calls = Append(@, "commandsocket.Destroy"),
                         !.logged = @ \cup {"commandsocket.Destroy"}]
         ELSE [st EXCEPT !.calls = Append(@, "commandsocket.Destroy"), !.cmd = "None"]

\* try: self._configurationsocket.Destroy(); self._configurationsocket = None / except: log
DestroyConfigurationSocket(st, fails) ==
    IF st.raised \/ st.cfg = "None" THEN st
    ELSE IF "configurationsocket.Destroy" \in fails
         THEN [st EXCEPT !.calls = Append(@, "configurationsocket.Destroy"),
                         !.logged = @ \cup {"configurationsocket.Destroy"}]
         ELSE [st EXCEPT !.calls = Append(@, "configurationsocket.Destroy"), !.cfg = "None"]

\* self._subscriber.Destroy(); self._subscriber = None, outside any try
DestroySubscriber(st, fails) ==
    IF st.raised \/ st.sub = "None" THEN st
    ELSE IF "subscriber.Destroy" \in fails
         THEN [st EXCEPT !.calls = Append(@, "subscriber.Destroy"), !.raised = TRUE]
         ELSE [st EXCEPT !.calls = Append(@, "subscriber.Destroy"), !.sub = "None"]

\* try: self._ctxown.destroy(); self._ctxown = None / except: log
DestroyOwnedContext(st, fails) ==
    IF st.raised \/ st.own = "None" THEN st
    ELSE IF "ctxown.destroy" \in fails
         THEN [st EXCEPT !.calls = Append(@, "ctxown.destroy"),
                         !.logged = @ \cup {"ctxown.destroy"}]
         ELSE [st EXCEPT !.calls = Append(@, "ctxown.destroy"), !.own = "None"]

\* self._ctx = None
ClearContext(st) == IF st.raised THEN st ELSE [st EXCEPT !.ctx = "None"]

DestroySteps(st, fails) ==
    ClearContext(
      DestroyOwnedContext(
        DestroySubscriber(
          DestroyConfigurationSocket(
            DestroyCommandSocket(SetDestroySteps(st, fails), fails), fails), fails), fails))

\* the calls of `fails` that were made
Failed(st, fails) == { c \in fails : \E i \in 1..Len(st.calls) : st.calls[i] = c }

\* the releases Destroy owes: one for each reference that is set when it is called
Held ==
    { c \in {"commandsocket.Destroy"} : commandsocket # "None" }
    \cup { c \in {"configurationsocket.Destroy"} : configurationsocket # "None" }
    \cup { c \in {"subscriber.Destroy"} : subscriber # "None" }
    \cup { c \in {"ctxown.destroy"} : ctxown # "None" }

TeardownOutcome(st) == IF st.raised THEN Raise("Exception", None, None) ELSE Return(None)

Destroy ==
    /\ Idle
    /\ \E fails \in SUBSET TeardownCalls :
         LET st == DestroySteps(References, fails) IN
         /\ commandsocket' = st.cmd
         /\ configurationsocket' = st.cfg
         /\ subscriber' = st.sub
         /\ ctxown' = st.own
         /\ ctx' = st.ctx
         /\ outstanding' = IF st.cmd = "None" THEN 0 ELSE outstanding
         /\ last' = Call("Destroy", [failed |-> Failed(st, fails), held |-> Held], FALSE,
                         None, NoChannel,
                         st.calls, st.logged, TeardownOutcome(st))
    /\ UNCHANGED <<callerid, previous>>

SetDestroy ==
    /\ Idle
    /\ \E fails \in SUBSET {"commandsocket.SetDestroy", "configurationsocket.SetDestroy"} :
         LET st == SetDestroySteps(References, fails) IN
         last' = Call("SetDestroy", [failed |-> Failed(st, fails)], FALSE, None, NoChannel,
                      st.calls, st.logged, TeardownOutcome(st))
    /\ UNCHANGED <<commandsocket, configurationsocket, subscriber, ctxown, ctx, callerid,
                   outstanding, previous>>

(***************************************************************************)
(* The caller takes the result of the call and goes on to its next call.   *)
(***************************************************************************)
Resume ==
    /\ ~Idle
    /\ last' = NoCall
    /\ previous' = IF last.op = "Destroy"
                   THEN IF last.out.kind = "raise" THEN "DestroyRaised" ELSE "Destroy"
                   ELSE "other"
    /\ UNCHANGED <<commandsocket, configurationsocket, subscriber, ctxown, ctx, callerid,
                   outstanding>>

(***************************************************************************)
(* __init__ and the specification.                                         *)
(***************************************************************************)
\* __init__(callerid=id, ctx=None or a context of the caller)
Constructed(id, suppliedctx) ==
    /\ commandsocket = "ZmqClient"
    /\ configurationsocket = "ZmqClient"
    /\ subscriber = "None"
    /\ ctxown = IF suppliedctx THEN "None" ELSE "Context"
    /\ ctx = "Context"
    /\ callerid = id
    /\ outstanding = 0
    /\ last = NoCall
    /\ previous = "other"

Init == \E id \in CallerIds, suppliedctx \in BOOLEAN : Constructed(id, suppliedctx)

Next ==
    \/ ExecuteCommand
    \/ SendConfiguration
    \/ WaitForResponse
    \/ IsWaitingResponseCall
    \/ GetPublishedState
    \/ Destroy
    \/ SetDestroy
    \/ Resume

Spec == Init /\ [][Next]_vars

(***************************************************************************)
(* The high-level operations: each builds a payload from its arguments and *)
(* dispatches it.  A call binds the arguments the caller supplied over the *)
(* defaults of the signature; the payload is built from the bound          *)
(* arguments statement by statement.                                       *)
(***************************************************************************)
\* most arguments a caller supplies in one call
MaxSupplied == 2

\* timeout=4.0 of GetTaskStateService and GetPublishedStateService, in milliseconds
ServiceTimeoutMs == 4000

\* dict.update(other)
Update(d, other) ==
    [k \in DOMAIN d \cup DOMAIN other |-> IF k \in DOMAIN other THEN other[k] ELSE d[k]]

\* the parameters of a call: the supplied arguments over the defaults
Bind(defaults, supplied) == Update(defaults, supplied)

\* a run of: if <name> is not None: command['<name>'] = <name>
RECURSIVE CopyNotNone(_, _, _)
CopyNotNone(command, a, names) ==
    IF names = <<>> THEN command
    ELSE CopyNotNone(IF a[Head(names)] # None
                     THEN SetItem(command, Head(names), a[Head(names)])
                     ELSE command,
                     a, Tail(names))

\* a run of: if <name>: command['<name>'] = <name>
RECURSIVE CopyTruthy(_, _, _)
CopyTruthy(command, a, names) ==
    IF names = <<>> THEN command
    ELSE CopyTruthy(IF Truthy(a[Head(names)])
                    THEN SetItem(command, Head(names), a[Head(names)])
                    ELSE command,
                    a, Tail(names))

\* if <name> is not None: command['<name>'] = 1 if <name> is True else 0
CopyFlag(command, a, name) ==
    IF a[name] # None
    THEN SetItem(command, name, IF a[name] = Bool(TRUE) THEN Num(1) ELSE Num(0))
    ELSE command

\* the defaults of the signatures
StartObjectDetectionTaskDefaults ==
    [taskId |-> None, locationName |-> None, ignoreocclusion |-> None,
     targetDynamicDetectorParameters |-> None, detectionstarttimestamp |-> None,
     locale |-> None, maxnumfastdetection |-> Num(1), maxnumdetection |-> Num(0),
     stopOnNotNeedContainer |-> None, targetupdatename |-> Str(""), numthreads |-> None,
     cycleIndex |-> None, ignorePlanningState |-> None,
     ignoreDetectionFileUpdateChange |-> None, sendVerificationPointCloud |-> None,
     forceClearRegion |-> None, waitForTrigger |-> Bool(FALSE),
     detectionTriggerMode |-> None, useLocationState |-> None]

StartContainerDetectionTaskDefaults ==
    [taskId |-> None, locationName |-> None, ignoreocclusion |-> None,
     targetDynamicDetectorParameters |-> None, detectionstarttimestamp |-> None,
     locale |-> None, numthreads |-> None, cycleIndex |-> None,
     ignorePlanningState |-> None, stopOnNotNeedContainer |-> None,
     useLocationState |-> None]

StopTaskDefaults ==
    [taskId |-> None, taskIds |-> None, taskType |-> None, taskTypes |-> None,
     cycleIndex |-> None, waitForStop |-> Bool(TRUE), removeTask |-> Bool(FALSE)]

ResumeTaskDefaults ==
    [taskId |-> None, taskIds |-> None, taskType |-> None, taskTypes |-> None,
     cycleIndex |-> None, waitForStop |-> Bool(TRUE)]

StartVisualizePointCloudTaskDefaults ==
    [locationName |-> None, sensorSelectionInfos |-> None, pointsize |-> None,
     ignoreocclusion |-> None, newerthantimestamp |-> None, request |-> Bool(TRUE),
     filteringsubsample |-> None, filteringvoxelsize |-> None, filteringstddev |-> None,
     filteringnumnn |-> None]

BackupVisionLogDefaults == [sensorTimestamps |-> None]

TaskQueryDefaults == [taskId |-> None, cycleIndex |-> None, taskType |-> None]

GetLatestDetectionResultImagesDefaults ==
    [taskId |-> None, cycleIndex |-> None, taskType |-> None, newerthantimestamp |-> Num(0),
     sensorSelectionInfo |-> None, metadataOnly |-> Bool(FALSE), imageTypes |-> None,
     limit |-> None]

\* the payloads, built as the methods build them
StartObjectDetectionTaskCommand(vminitparams, a, kwargs) ==
    LET c0 == [command |-> Str("StartObjectDetectionTask"),
               targetupdatename |-> a.targetupdatename]
        c1 == Update(c0, vminitparams.d)
        c2 == CopyNotNone(c1, a, <<"locationName">>)
        c3 == CopyTruthy(c2, a, <<"taskId">>)
        c4 == CopyFlag(c3, a, "ignoreocclusion")
        c5 == CopyNotNone(c4, a,
                <<"targetDynamicDetectorParameters", "detectionstarttimestamp", "locale",
                  "sendVerificationPointCloud", "stopOnNotNeedContainer", "maxnumdetection",
                  "maxnumfastdetection", "numthreads", "cycleIndex", "ignorePlanningState",
                  "ignoreDetectionFileUpdateChange", "forceClearRegion",
                  "detectionTriggerMode", "useLocationState">>)
    IN Dict(Update(c5, kwargs.d))

StartContainerDetectionTaskCommand(vminitparams, a, kwargs) ==
    LET c0 == [command |-> Str("StartContainerDetectionTask")]
        c1 == Update(c0, vminitparams.d)
        c2 == CopyTruthy(c1, a, <<"taskId">>)
        c3 == CopyNotNone(c2, a, <<"locationName">>)
        c4 == CopyFlag(c3, a, "ignoreocclusion")
        c5 == CopyNotNone(c4, a,
                <<"targetDynamicDetectorParameters", "detectionstarttimestamp", "locale",
                  "numthreads", "cycleIndex", "ignorePlanningState",
                  "stopOnNotNeedContainer", "useLocationState">>)
    IN Dict(Update(c5, kwargs.d))

\* every optional argument sent, None or not
StopTaskCommandWithNulls(a) ==
    Dict(Update([command |-> Str("StopTask")], a))

StopTaskCommand(a) ==
    Dict(CopyTruthy([command |-> Str("StopTask"), waitForStop |-> a.waitForStop,
                     removeTask |-> a.removeTask],
                    a, <<"taskId", "taskIds", "taskType", "taskTypes", "cycleIndex">>))

ResumeTaskCommand(a) ==
    Dict(CopyTruthy([command |-> Str("ResumeTask"), waitForStop |-> a.waitForStop],
                    a, <<"taskId", "taskIds", "taskType", "taskTypes", "cycleIndex">>))

StartVisualizePointCloudTaskCommand(vminitparams, a) ==
    LET c0 == [command |-> Str("StartVisualizePointCloudTask")]
        c1 == Update(c0, vminitparams.d)
        c2 == CopyNotNone(c1, a, <<"locationName", "sensorSelectionInfos", "pointsize">>)
        c3 == CopyFlag(c2, a, "ignoreocclusion")
        c4 == CopyNotNone(c3, a, <<"newerthantimestamp">>)
        c5 == CopyFlag(c4, a, "request")
    IN Dict(CopyNotNone(c5, a, <<"filteringsubsample", "filteringvoxelsize",
                                 "filteringstddev", "filteringnumnn">>))

\* if sensorTimestamps is None: sensorTimestamps = []
BackupVisionLogCommand(cycleIndex, a) ==
    Dict([command |-> Str("BackupDetectionLogs"), cycleIndex |-> cycleIndex,
          sensorTimestamps |-> IF a.sensorTimestamps = None THEN List(<<>>)
                               ELSE a.sensorTimestamps])

\* GetLatestDetectedObjects, GetVisionStatistics, GetTaskStateService
TaskQueryCommand(name, a) ==
    Dict(CopyTruthy([command |-> Str(name)], a, <<"taskId", "cycleIndex", "taskType">>))

GetLatestDetectionResultImagesCommand(a) ==
    Dict(CopyTruthy([command |-> Str("GetLatestDetectionResultImages"),
                     newerthantimestamp |-> a.newerthantimestamp],
                    a, <<"taskId", "cycleIndex", "taskType", "sensorSelectionInfo",
                         "metadataOnly", "imageTypes", "limit">>))

GetDetectionHistoryCommand(timestamp) ==
    Dict([command |-> Str("GetDetectionHistory"), timestamp |-> timestamp])

SetLogLevelCommand(componentLevels) ==
    Dict([command |-> Str("SetLogLevel"), componentLevels |-> componentLevels])

\* Ping, Cancel, Quit, GetPublishedStateService
BareCommand(name) == Dict([command |-> Str(name)])

(***************************************************************************)
(* The arguments callers pass to the high-level operations.                *)
(***************************************************************************)
\* the values a caller passes for an argument
ArgValues(name) ==
    CASE name = "taskId" -> {Str(""), Str("task1")}
      [] name \in {"ignoreocclusion", "request"} -> {Bool(TRUE), Bool(FALSE)}
      [] name = "waitForStop" -> {Bool(FALSE)}
      [] name \in {"removeTask", "metadataOnly", "waitForTrigger"} -> {Bool(TRUE)}
      [] name = "maxnumdetection" -> {None, Num(5)}
      [] name = "targetupdatename" -> {Str("box")}
      [] name = "cycleIndex" -> {Str("cycle1")}
      [] name \in {"taskIds", "taskTypes", "imageTypes", "sensorSelectionInfos",
                   "sensorTimestamps"} -> {List(<<Num(1)>>)}
      [] OTHER -> {Num(1)}

\* the ways to supply at most MaxSupplied of the optional arguments
Supplied(defaults) ==
    UNION { { f \in [S -> UNION { ArgValues(n) : n \in S }] :
                \A n \in S : f[n] \in ArgValues(n) } :
            S \in { T \in SUBSET DOMAIN defaults : Cardinality(T) <= MaxSupplied } }

VmInitParams ==
    { Dict(EmptyMap),
      Dict([targetname |-> Str("box"), callerid |-> Str("other")]),
      Dict([command |-> Str("Other")]) }

\* **kwargs
KwArgs == { Dict(EmptyMap), Dict([waitingMode |-> Str("StartWaiting"), callerid |-> Str("other")]) }

\* what the channel does with the payload of a high-level operation: it times out, or
\* hands back a reply, a failure reply, or the acknowledgement of an unawaited command
OperationOutcomes(fireandforget, blockwait, recvjson) ==
    { o \in SendOutcomes(fireandforget, blockwait, recvjson) :
        o \in { ChannelRaises("TimeoutError"), ChannelReturns(None),
                ChannelReturns(Dict([result |-> Num(1)])),
                ChannelReturns(Dict([error |-> Str("oops")])),
                ChannelReturns(Raw(JsonDumps(Dict([result |-> Num(1)])))),
                ChannelReturns(Raw(<<Byte>>)) } }

\* the arguments of a call as the call record keeps them
Arguments(supplied, vminitparams, kwargs, fireandforget, recvjson, blockwait, timeout) ==
    [supplied |-> supplied, vminitparams |-> vminitparams, kwargs |-> kwargs,
     fireandforget |-> fireandforget, recvjson |-> recvjson, blockwait |-> blockwait,
     timeout |-> timeout]

\* return self._ExecuteCommand(command, ...)
ViaExecuteCommand(op, args, command) ==
    LET sent == InjectCallerId(command, callerid) IN
    /\ IF commandsocket = "None"
       THEN /\ last' = Call(op, args, FALSE, None, NoChannel, <<>>, {}, AttributeError)
            /\ UNCHANGED outstanding
       ELSE \E chan \in OperationOutcomes(args.fireandforget, args.blockwait, args.recvjson) :
              /\ AfterSend(outstanding, args.fireandforget, args.blockwait, chan)
                   <= MaxOutstanding
              /\ outstanding' = AfterSend(outstanding, args.fireandforget, args.blockwait,
                                          chan)
              /\ last' = Call(op, args, IsWaitingResponse(outstanding), sent, chan,
                              <<"commandsocket.SendCommand">>, {},
                              ExecuteResult(sent, args.fireandforget, args.recvjson,
                                            args.blockwait, chan))
    /\ UNCHANGED <<commandsocket, configurationsocket, subscriber, ctxown, ctx, callerid,
                   previous>>

\* return self._SendConfiguration(command, timeout=timeout)
ViaSendConfiguration(op, args, configuration) ==
    LET sent == InjectCallerId(configuration, callerid) IN
    /\ IF configurationsocket = "None"
       THEN last' = Call(op, args, FALSE, None, NoChannel, <<>>, {}, AttributeError)
       ELSE \E chan \in OperationOutcomes(FALSE, TRUE, TRUE) :
              last' = Call(op, args, FALSE, sent, chan,
                           <<"configurationsocket.SendCommand">>, {},
                           ConfigurationResult(sent, FALSE, TRUE, chan))
    /\ UNCHANGED <<commandsocket, configurationsocket, subscriber, ctxown, ctx, callerid,
                   outstanding, previous>>

(***************************************************************************)
(* The high-level operations.                                              *)
(***************************************************************************)
StartObjectDetectionTask ==
    /\ Idle
    /\ \E supplied \in Supplied(StartObjectDetectionTaskDefaults),
          vminitparams \in VmInitParams,
          kwargs \in KwArgs :
         ViaExecuteCommand("StartObjectDetectionTask",
             Arguments(supplied, vminitparams, kwargs, FALSE, TRUE, TRUE,
                       Float(DefaultTimeoutMs)),
             StartObjectDetectionTaskCommand(vminitparams, Bind(StartObjectDetectionTaskDefaults, supplied), kwargs))

StartContainerDetectionTask ==
    /\ Idle
    /\ \E supplied \in Supplied(StartContainerDetectionTaskDefaults),
          vminitparams \in VmInitParams,
          kwargs \in KwArgs :
         ViaExecuteCommand("StartContainerDetectionTask",
             Arguments(supplied, vminitparams, kwargs, FALSE, TRUE, TRUE,
                       Float(DefaultTimeoutMs)),
             StartContainerDetectionTaskCommand(vminitparams, Bind(StartContainerDetectionTaskDefaults, supplied), kwargs))

StopTask ==
    /\ Idle
    /\ \E supplied \in Supplied(StopTaskDefaults),
          fireandforget \in BOOLEAN :
         ViaExecuteCommand("StopTask",
             Arguments(supplied, Dict(EmptyMap), Dict(EmptyMap), fireandforget, TRUE, TRUE,
                       Float(DefaultTimeoutMs)),
             StopTaskCommand(Bind(StopTaskDefaults, supplied)))

ResumeTask ==
    /\ Idle
    /\ \E supplied \in Supplied(ResumeTaskDefaults),
          fireandforget \in BOOLEAN :
         ViaExecuteCommand("ResumeTask",
             Arguments(supplied, Dict(EmptyMap), Dict(EmptyMap), fireandforget, TRUE, TRUE,
                       Float(DefaultTimeoutMs)),
             ResumeTaskCommand(Bind(ResumeTaskDefaults, supplied)))

StartVisualizePointCloudTask ==
    /\ Idle
    /\ \E supplied \in Supplied(StartVisualizePointCloudTaskDefaults),
          vminitparams \in VmInitParams :
         ViaExecuteCommand("StartVisualizePointCloudTask",
             Arguments(supplied, vminitparams, Dict(EmptyMap), FALSE, TRUE, TRUE,
                       Float(DefaultTimeoutMs)),
             StartVisualizePointCloudTaskCommand(vminitparams, Bind(StartVisualizePointCloudTaskDefaults, supplied)))

BackupVisionLog ==
    /\ Idle
    /\ \E supplied \in Supplied(BackupVisionLogDefaults),
          fireandforget \in BOOLEAN :
         ViaExecuteCommand("BackupVisionLog",
             Arguments(supplied, Dict(EmptyMap), Dict(EmptyMap), fireandforget, TRUE, TRUE,
                       Float(DefaultTimeoutMs)),
             BackupVisionLogCommand(Str("cycle1"), Bind(BackupVisionLogDefaults, supplied)))

GetLatestDetectedObjects ==
    /\ Idle
    /\ \E supplied \in Supplied(TaskQueryDefaults) :
         ViaExecuteCommand("GetLatestDetectedObjects",
             Arguments(supplied, Dict(EmptyMap), Dict(EmptyMap), FALSE, TRUE, TRUE,
                       Float(DefaultTimeoutMs)),
             TaskQueryCommand("GetLatestDetectedObjects", Bind(TaskQueryDefaults, supplied)))

GetLatestDetectionResultImages ==
    /\ Idle
    /\ \E supplied \in Supplied(GetLatestDetectionResultImagesDefaults),
          blockwait \in BOOLEAN :
         ViaExecuteCommand("GetLatestDetectionResultImages",
             Arguments(supplied, Dict(EmptyMap), Dict(EmptyMap), FALSE, FALSE, blockwait,
                       Float(DefaultTimeoutMs)),
             GetLatestDetectionResultImagesCommand(Bind(GetLatestDetectionResultImagesDefaults, supplied)))

GetVisionStatistics ==
    /\ Idle
    /\ \E supplied \in Supplied(TaskQueryDefaults) :
         ViaExecuteCommand("GetVisionStatistics",
             Arguments(supplied, Dict(EmptyMap), Dict(EmptyMap), FALSE, TRUE, TRUE,
                       Float(DefaultTimeoutMs)),
             TaskQueryCommand("GetVisionStatistics", Bind(TaskQueryDefaults, supplied)))

GetDetectionHistory ==
    /\ Idle
    /\ ViaExecuteCommand("GetDetectionHistory",
           Arguments(<<>>, Dict(EmptyMap), Dict(EmptyMap), FALSE, FALSE, TRUE,
                     Float(DefaultTimeoutMs)),
           GetDetectionHistoryCommand(Num(1)))

\* return self._WaitForResponse(recvjson=False, timeout=timeout)
WaitForGetLatestDetectionResultImages ==
    /\ Idle
    /\ LET args == Arguments(<<>>, Dict(EmptyMap), Dict(EmptyMap), FALSE, FALSE, FALSE,
                             Float(DefaultTimeoutMs))
           op == "WaitForGetLatestDetectionResultImages"
       IN IF commandsocket = "None"
          THEN /\ last' = Call(op, args, FALSE, None, NoChannel, <<>>, {}, AttributeError)
               /\ UNCHANGED outstanding
          ELSE IF InvalidWait(outstanding)
          THEN /\ last' = Call(op, args, IsWaitingReply(outstanding), None, NoChannel,
                               <<"commandsocket.IsWaitingReply">>, {}, InvalidWaitError(None))
               /\ UNCHANGED outstanding
          ELSE \E chan \in ReceiveOutcomes(FALSE) :
                 /\ outstanding' = AfterReceive(outstanding, chan)
                 /\ last' = Call(op, args, IsWaitingReply(outstanding), None, chan,
                                 <<"commandsocket.IsWaitingReply",
                                   "commandsocket.ReceiveCommand">>, {},
                                 WaitResult(FALSE, args.timeout, None, chan))
    /\ UNCHANGED <<commandsocket, configurationsocket, subscriber, ctxown, ctx, callerid,
                   previous>>

Ping ==
    /\ Idle
    /\ ViaSendConfiguration("Ping",
           Arguments(<<>>, Dict(EmptyMap), Dict(EmptyMap), FALSE, TRUE, TRUE,
                     Float(DefaultTimeoutMs)),
           BareCommand("Ping"))

SetLogLevel ==
    /\ Idle
    /\ ViaSendConfiguration("SetLogLevel",
           Arguments(<<>>, Dict(EmptyMap), Dict(EmptyMap), FALSE, TRUE, TRUE,
                     Float(DefaultTimeoutMs)),
           SetLogLevelCommand(Dict([vision |-> Str("DEBUG")])))

Cancel ==
    /\ Idle
    /\ ViaSendConfiguration("Cancel",
           Arguments(<<>>, Dict(EmptyMap), Dict(EmptyMap), FALSE, TRUE, TRUE,
                     Float(DefaultTimeoutMs)),
           BareCommand("Cancel"))

Quit ==
    /\ Idle
    /\ ViaSendConfiguration("Quit",
           Arguments(<<>>, Dict(EmptyMap), Dict(EmptyMap), FALSE, TRUE, TRUE,
                     Float(DefaultTimeoutMs)),
           BareCommand("Quit"))

GetTaskStateService ==
    /\ Idle
    /\ \E supplied \in Supplied(TaskQueryDefaults) :
         ViaSendConfiguration("GetTaskStateService",
             Arguments(supplied, Dict(EmptyMap), Dict(EmptyMap), FALSE, TRUE, TRUE,
                       Float(ServiceTimeoutMs)),
             TaskQueryCommand("GetTaskState", Bind(TaskQueryDefaults, supplied)))

GetPublishedStateService ==
    /\ Idle
    /\ ViaSendConfiguration("GetPublishedStateService",
           Arguments(<<>>, Dict(EmptyMap), Dict(EmptyMap), FALSE, TRUE, TRUE,
                     Float(ServiceTimeoutMs)),
           BareCommand("GetPublishedState"))

HighLevelNext ==
    \/ StartObjectDetectionTask
    \/ StartContainerDetectionTask
    \/ StopTask
    \/ ResumeTask
    \/ StartVisualizePointCloudTask
    \/ BackupVisionLog
    \/ GetLatestDetectedObjects
    \/ GetLatestDetectionResultImages
    \/ WaitForGetLatestDetectionResultImages
    \/ GetDetectionHistory
    \/ GetVisionStatistics
    \/ Ping
    \/ SetLogLevel
    \/ Cancel
    \/ Quit
    \/ GetTaskStateService
    \/ GetPublishedStateService
    \/ ExecuteCommand
    \/ SendConfiguration
    \/ Resume

\* the client as its users drive it: through the high-level operations and the two
\* dispatchers they are built on
HighLevelSpec == Init /\ [][HighLevelNext]_vars

(***************************************************************************)
(* Properties.                                                             *)
(***************************************************************************)
Made(c) == \E i \in 1..Len(last.calls) : last.calls[i] = c

Embeds(desc, v) == desc.t = "msg" /\ \E i \in 1..Len(desc.args) : desc.args[i] = v

\* the call went through _ProcessResponse: the channel returned and the mode validates
Validated ==
    /\ last.chan.kind = "return"
    /\ \/ last.op = "WaitForResponse"
       \/ last.op = "ExecuteCommand" /\ last.args.blockwait /\ ~last.args.fireandforget
       \/ last.op = "SendConfiguration" /\ ~last.args.fireandforget

\* the command argument _ProcessResponse was given
ValidatedCommand == IF last.op = "WaitForResponse" THEN last.args.command ELSE last.sent

\* the validated reply is a brace-delimited raw payload that decodes
DecodableRaw ==
    /\ Validated
    /\ ~last.args.recvjson
    /\ Len(last.chan.value.r) > 0
    /\ last.chan.value.r[1] = LBrace
    /\ last.chan.value.r[Len(last.chan.value.r)] = RBrace
    /\ JsonLoads(last.chan.value.r).ok

\* the validated reply is a mapping: delivered decoded, or decoded from the raw payload
Structured == Validated /\ (last.args.recvjson \/ DecodableRaw)
StructuredReply ==
    IF last.args.recvjson THEN last.chan.value ELSE JsonLoads(last.chan.value.r).val

IsClientError(out, errortype) ==
    /\ out.kind = "raise"
    /\ out.exc = "VisionControllerClientError"
    /\ out.errortype = errortype

\* C1: _WaitForResponse called while the command channel is not waiting for a reply
\* fails with errortype 'invalidwait', whatever recvjson, timeout and command are, and
\* ReceiveCommand is not called.
C1_InvalidWait ==
    (last.op = "WaitForResponse" /\ Made("commandsocket.IsWaitingReply") /\ ~last.waiting)
    => /\ IsClientError(last.out, Str("invalidwait"))
       /\ ~Made("commandsocket.ReceiveCommand")
       /\ last.chan = NoChannel

C1_Witness ==
    /\ last.op = "WaitForResponse"
    /\ ~last.waiting
    /\ last.args.timeout = None
    /\ ~last.args.recvjson
    /\ last.args.command # None
    /\ last.out.errortype = Str("invalidwait")

\* C2 as claimed: at most one deferred command is outstanding at any time, and no
\* command is dispatched on the command channel while a deferred reply is uncollected.
C2_AtMostOneDeferred ==
    /\ outstanding <= 1
    /\ (last.op = "ExecuteCommand" /\ Made("commandsocket.SendCommand")) => ~last.waiting

\* C2 amended: a command dispatched while IsWaitingResponse() is false leaves at most
\* one deferred command outstanding; the client itself dispatches without asking.
C2_DispatchWhenNotWaiting ==
    (last.op = "ExecuteCommand" /\ Made("commandsocket.SendCommand") /\ ~last.waiting)
    => outstanding <= 1

C2_Witness ==
    /\ last.op = "ExecuteCommand"
    /\ ~last.waiting
    /\ ~last.args.blockwait
    /\ ~last.args.fireandforget
    /\ last.chan.kind = "return"
    /\ outstanding = 1

\* C3: a blocking, non-fire-and-forget _ExecuteCommand or _SendConfiguration whose
\* channel times out fails with VisionControllerTimeoutError, errortype 'timeout'.
C3_BlockingTimeoutTranslated ==
    ( /\ last.op \in {"ExecuteCommand", "SendConfiguration"}
      /\ last.args.blockwait /\ ~last.args.fireandforget
      /\ ChanTag(last.chan) = "TimeoutError" )
    => /\ last.out.kind = "raise"
       /\ last.out.exc = "VisionControllerTimeoutError"
       /\ last.out.errortype = Str("timeout")

\* C4: with the pending-wait flag set, a receive that times out makes _WaitForResponse
\* fail with VisionControllerTimeoutError, errortype 'timeout', the message carrying the
\* timeout, the command name and hostname:commandport, for every timeout including None.
C4_WaitTimeout ==
    (last.op = "WaitForResponse" /\ last.waiting /\ ChanTag(last.chan) = "TimeoutError")
    => /\ last.out.kind = "raise"
       /\ last.out.exc = "VisionControllerTimeoutError"
       /\ last.out.errortype = Str("timeout")
       /\ FormatSeconds(last.args.timeout).ok
       /\ Embeds(last.out.desc, FormatSeconds(last.args.timeout).text)
       /\ Embeds(last.out.desc, CommandName(last.args.command))
       /\ Embeds(last.out.desc, Str(hostname))
       /\ Embeds(last.out.desc, Num(commandport))

\* the errortype of the failure raised for an unrecognised 'error' value in a response
UnknownErrorType == ProcessResponse(Dict([error |-> Str("oops")]), None, TRUE).errortype

\* C5: with the pending-wait flag set, a receive that fails otherwise makes
\* _WaitForResponse fail with a client error carrying the cause, whose errortype differs
\* from that of UnknownError, Timeout, InvalidWait and EmptyResponse.
C5_CommunicationErrorDistinct ==
    (last.op = "WaitForResponse" /\ last.waiting /\ ChanTag(last.chan) = "Exception")
    => /\ last.out.kind = "raise"
       /\ last.out.exc = "VisionControllerClientError"
       /\ Embeds(last.out.desc, last.chan.value)
       /\ last.out.errortype \notin
            {UnknownErrorType, Str("timeout"), Str("invalidwait"), Str("emptyresponseerror")}

AllCleared ==
    /\ commandsocket = "None"
    /\ configurationsocket = "None"
    /\ subscriber = "None"
    /\ ctxown = "None"
    /\ ctx = "None"

\* C6: of two Destroy calls in succession neither raises, after them every reference is
\* None, and the second one calls no collaborator.
C6_DestroyIdempotent ==
    (last.op = "Destroy" /\ previous \in {"Destroy", "DestroyRaised"})
    => /\ previous = "Destroy"
       /\ last.out.kind = "return"
       /\ AllCleared
       /\ last.calls = <<>>

\* C7: Destroy never raises; every release that failed was logged; the release of every
\* resource held when Destroy was called was attempted.
C7_TeardownFailuresContained ==
    last.op = "Destroy"
    => /\ last.out.kind = "return"
       /\ last.args.failed \subseteq last.logged
       /\ \A c \in last.args.held : Made(c)

\* C8: validation of a mapping with an 'error' key always fails: with the 'type' and
\* 'desc' of a mapping error value ('' when absent), else with errortype 'unknownerror'
\* and a description that embeds the error value.
C8_ErrorKeyAlwaysFails ==
    (Structured /\ HasKey(StructuredReply, "error"))
    => LET error == StructuredReply.d["error"] IN
       IF IsDict(error)
       THEN /\ IsClientError(last.out, Get(error, "type", Str("")))
            /\ last.out.desc = Get(error, "desc", Str(""))
       ELSE /\ IsClientError(last.out, Str("unknownerror"))
            /\ Embeds(last.out.desc, error)

C8_Witness ==
    /\ Structured
    /\ ~last.args.recvjson
    /\ HasKey(StructuredReply, "error")
    /\ StructuredReply.d["error"] = None
    /\ last.out.errortype = Str("unknownerror")

\* C9: in non-JSON mode a brace-delimited raw reply that decodes to a mapping without an
\* 'error' key is a success that returns the decoded mapping.
C9_DecodedMappingReturned ==
    (DecodableRaw /\ ~HasKey(StructuredReply, "error"))
    => last.out = Return(StructuredReply)

\* C10: in non-JSON mode an empty raw reply fails with errortype 'emptyresponseerror'
\* and a message that carries the command, and that errortype is raised only when the
\* raw payload was empty.
C10_EmptyResponseOnlyWhenRawEmpty ==
    (Validated /\ ~last.args.recvjson)
    => /\ Len(last.chan.value.r) = 0
          => /\ IsClientError(last.out, Str("emptyresponseerror"))
             /\ Embeds(last.out.desc, ValidatedCommand)
       /\ last.out.errortype = Str("emptyresponseerror") => Len(last.chan.value.r) = 0

\* the first and the last character of the validated raw reply are '{' and '}'
BraceDelimited ==
    /\ last.chan.value.r[1] = LBrace
    /\ last.chan.value.r[Len(last.chan.value.r)] = RBrace

\* C11: in non-JSON mode a non-empty raw reply is returned unchanged, undecoded, exactly
\* when its first character is not '{' or its last is not '}'; the characters in between
\* do not matter: a brace-delimited reply is never handed back as it came.
C11_SniffFirstAndLastOnly ==
    (Validated /\ ~last.args.recvjson /\ Len(last.chan.value.r) > 0)
    => (last.out = Return(last.chan.value) <=> ~BraceDelimited)

\* a serialised mapping behind a leading blank is valid JSON and still comes back raw
C11_Witness ==
    /\ Validated
    /\ ~last.args.recvjson
    /\ Len(last.chan.value.r) > 1
    /\ last.chan.value.r[1] = Ws
    /\ JsonLoads(last.chan.value.r).ok
    /\ last.out = Return(last.chan.value)

\* what validation rejects: a mapping with an 'error' key, an empty raw payload
Rejectable(v) == HasKey(v, "error") \/ (v.t = "raw" /\ Len(v.r) = 0)

\* C12: _ExecuteCommand validates what SendCommand returned exactly when the call is
\* blocking and not fire-and-forget, and _SendConfiguration exactly when it is not
\* fire-and-forget: otherwise the value is returned as it is, even with an 'error' key
\* or empty; when validating, such a value makes the call fail.
C12_ValidationOnlyWhenBlocking ==
    ( /\ last.op \in {"ExecuteCommand", "SendConfiguration"}
      /\ last.chan.kind = "return" )
    => LET validates ==
               IF last.op = "ExecuteCommand"
               THEN last.args.blockwait /\ ~last.args.fireandforget
               ELSE ~last.args.fireandforget
       IN /\ ~validates => last.out = Return(last.chan.value)
          /\ (validates /\ Rejectable(last.chan.value))
             => IsClientError(last.out, last.out.errortype)

\* a fire-and-forget blocking call hands back a mapping with an 'error' key
C12_Witness ==
    /\ last.op = "ExecuteCommand"
    /\ last.args.fireandforget
    /\ last.args.blockwait
    /\ HasKey(last.chan.value, "error")
    /\ last.out = Return(last.chan.value)

\* the operations that build a payload and dispatch it
HighLevelOperations ==
    { "StartObjectDetectionTask", "StartContainerDetectionTask", "StopTask", "ResumeTask",
      "StartVisualizePointCloudTask", "BackupVisionLog", "GetLatestDetectedObjects",
      "GetLatestDetectionResultImages", "GetDetectionHistory", "GetVisionStatistics",
      "Ping", "SetLogLevel", "Cancel", "Quit", "GetTaskStateService",
      "GetPublishedStateService" }

\* a high-level operation has dispatched a payload
Dispatched == last.op \in HighLevelOperations /\ last.sent # None

\* the optional arguments of an operation with their defaults
Defaults(op) ==
    CASE op = "StartObjectDetectionTask" -> StartObjectDetectionTaskDefaults
      [] op = "StartContainerDetectionTask" -> StartContainerDetectionTaskDefaults
      [] op = "StopTask" -> StopTaskDefaults
      [] op = "ResumeTask" -> ResumeTaskDefaults
      [] op = "StartVisualizePointCloudTask" -> StartVisualizePointCloudTaskDefaults
      [] op = "BackupVisionLog" -> BackupVisionLogDefaults
      [] op \in {"GetLatestDetectedObjects", "GetVisionStatistics", "GetTaskStateService"}
           -> TaskQueryDefaults
      [] op = "GetLatestDetectionResultImages" -> GetLatestDetectionResultImagesDefaults
      [] OTHER -> EmptyMap

\* the keys the caller put into the payload through vminitparams and **kwargs
PassedThrough == DOMAIN last.args.vminitparams.d \cup DOMAIN last.args.kwargs.d

\* C13 as claimed: the payload of a high-level operation has 'command' equal to the
\* operation's name, and the key of an optional argument only if the caller supplied it.
C13_OnlySuppliedOptionals ==
    Dispatched
    => /\ last.sent.d["command"] = Str(last.op)
       /\ \A k \in DOMAIN Defaults(last.op) :
            k \in DOMAIN last.sent.d => k \in DOMAIN last.args.supplied

\* the command name an operation sends: its own name but for three operations
FixedCommandName(op) ==
    CASE op = "BackupVisionLog" -> "BackupDetectionLogs"
      [] op = "GetTaskStateService" -> "GetTaskState"
      [] op = "GetPublishedStateService" -> "GetPublishedState"
      [] OTHER -> op

\* C13 amended: 'command' is the fixed command name of the operation unless vminitparams
\* or **kwargs carry a 'command' of their own; the key of an optional argument is in the
\* payload only if the caller supplied the argument (not None), or passed the key in
\* vminitparams or **kwargs, or the argument's default is not None, or it is
\* sensorTimestamps of BackupVisionLog.
C13_OmittedNoneDefaultsAbsent ==
    Dispatched
    => /\ "command" \notin PassedThrough
            => last.sent.d["command"] = Str(FixedCommandName(last.op))
       /\ \A k \in DOMAIN Defaults(last.op) :
            k \in DOMAIN last.sent.d
            => \/ k \in DOMAIN last.args.supplied /\ last.args.supplied[k] # None
               \/ k \in PassedThrough
               \/ Defaults(last.op)[k] # None
               \/ last.op = "BackupVisionLog" /\ k = "sensorTimestamps"

\* a detection task started with a location and an empty task id: the location is in the
\* payload, the task id and the other omitted arguments are not
C13_Witness ==
    /\ last.op = "StartObjectDetectionTask"
    /\ last.sent # None
    /\ DOMAIN last.args.supplied = {"locationName", "taskId"}
    /\ last.args.supplied["taskId"] = Str("")
    /\ last.args.kwargs = Dict(EmptyMap)
    /\ last.args.vminitparams = Dict(EmptyMap)
    /\ DOMAIN last.sent.d \ {"callerid"}
         = {"command", "targetupdatename", "locationName", "maxnumdetection",
            "maxnumfastdetection"}

\* a payload went out on the command or the configuration channel
PayloadSent ==
    /\ last.op \in HighLevelOperations \cup {"ExecuteCommand", "SendConfiguration"}
    /\ last.sent # None

\* the 'callerid' the caller put into the payload: in the command handed to a dispatcher,
\* or through **kwargs or vminitparams; None when there is none
PassedCallerId ==
    IF last.op \in {"ExecuteCommand", "SendConfiguration"}
    THEN Get(last.args.command, "callerid", None)
    ELSE Get(last.args.kwargs, "callerid", Get(last.args.vminitparams, "callerid", None))

\* C14 as claimed: a client constructed with a caller identifier, the empty string
\* included, dispatches only payloads whose 'callerid' is that identifier; a client
\* constructed without one dispatches no payload with a 'callerid' key.
C14_CallerIdIffConfigured ==
    PayloadSent
    => IF callerid # None
       THEN HasKey(last.sent, "callerid") /\ last.sent.d["callerid"] = callerid
       ELSE ~HasKey(last.sent, "callerid")

\* C14 amended: a client constructed with a non-empty caller identifier dispatches only
\* payloads whose 'callerid' is that identifier, whatever 'callerid' the payload had; a
\* client constructed with None or '' leaves the payload as the caller built it: its
\* 'callerid', if any, is the one the caller passed.
C14_NonEmptyCallerIdOverrides ==
    PayloadSent
    => IF Truthy(callerid)
       THEN HasKey(last.sent, "callerid") /\ last.sent.d["callerid"] = callerid
       ELSE /\ HasKey(last.sent, "callerid") <=> PassedCallerId # None
            /\ Get(last.sent, "callerid", None) = PassedCallerId

\* the client's identifier replaces the one that came with **kwargs
C14_Witness ==
    /\ last.op = "StartObjectDetectionTask"
    /\ last.sent # None
    /\ callerid = Str("caller1")
    /\ PassedCallerId = Str("other")
    /\ last.sent.d["callerid"] = Str("caller1")

\* how often a collaborator call occurs in the calls of a call record
Count(calls, c) == Cardinality({ i \in 1..Len(calls) : calls[i] = c })

\* one step of the client, seen from the subscriber
SubscriberStep ==
    /\ last'.op = "GetPublishedState"
       => /\ Count(last'.calls, "zmqsubscriber.ZmqSubscriber")
               = IF subscriber = "None" THEN 1 ELSE 0
          /\ subscriber' = "ZmqSubscriber"
          /\ last'.sent = Msg("tcp://%s:%d", <<Str(hostname), Num(commandport + 3)>>)
          /\ Count(last'.calls, "subscriber.SpinOnce") = 1
          /\ last'.chan = ChannelReturns(None) => last'.out = Return(None)
          /\ (last'.chan.kind = "return" /\ last'.chan.value # None
              /\ JsonLoads(last'.chan.value.r).ok)
             => last'.out = Return(JsonLoads(last'.chan.value.r).val)
          /\ UNCHANGED <<commandsocket, configurationsocket, outstanding>>
    /\ (subscriber # "None" /\ subscriber' = "None") => last'.op = "Destroy"

\* C15: GetPublishedState constructs the subscriber for host:commandport+3 only when
\* there is none, and the subscriber stays until Destroy, so that one subscriber is made
\* over any run of GetPublishedState calls before Destroy; each call polls once and
\* returns the decoded newest message, or None when the poll gave nothing, and leaves the
\* two channels and the pending-wait state as they were.
C15_SubscriberCreatedOnce == [][SubscriberStep]_vars

\* a later call: no subscriber is constructed and the decoded message is returned
C15_Witness ==
    /\ last.op = "GetPublishedState"
    /\ last.calls = <<"subscriber.SpinOnce">>
    /\ last.chan.value # None
    /\ last.out = Return(Dict([result |-> Num(1)]))
    /\ outstanding > 0

====
